---- MODULE Spec2Model ----
(***************************************************************************)
(* Line grammar of src/asm/statements.rs: the nom sub-parsers for labels,  *)
(* directives and instructions, the dispatcher parse_statement, the        *)
(* Display renderings and the classification predicates.                   *)
(*                                                                         *)
(* Text is a sequence of one-character strings.  A parser result is        *)
(* [ok |-> FALSE] (nom's Err) or [ok |-> TRUE, rest |-> .., val |-> ..].   *)
(* A u64 is kept as its canonical decimal digits (no leading zeros), so    *)
(* that the 64-bit overflow check of nom's u64 parser is exact.            *)
(***************************************************************************)
EXTENDS Integers, Sequences, FiniteSets, TLC

VARIABLES input, form, pc, res, flags, rendered, res2

vars == <<input, form, pc, res, flags, rendered, res2>>

----------------------------------------------------------------------------
(* Character classes                                                        *)

Digits == {"0", "1", "2", "3", "4", "5", "6", "7", "8", "9"}

HexLetters == {"a", "b", "c", "d", "e", "f", "A", "B", "C", "D", "E", "F"}

Letters ==
  {"a", "b", "c", "d", "e", "f", "g", "h", "i", "j", "k", "l", "m",
   "n", "o", "p", "q", "r", "s", "t", "u", "v", "w", "x", "y", "z",
   "A", "B", "C", "D", "E", "F", "G", "H", "I", "J", "K", "L", "M",
   "N", "O", "P", "Q", "R", "S", "T", "U", "V", "W", "X", "Y", "Z"}

\* str::trim removes Unicode White_Space; these are the ones that occur here
WhiteSpace == {" ", "\t", "\r", "\n"}

\* A character predicate is the set of characters it accepts, or (neg) the
\* set of characters it rejects.
Is(S) == [neg |-> FALSE, set |-> S]

IsNot(S) == [neg |-> TRUE, set |-> S]

Sat(P, c) == IF P.neg THEN c \notin P.set ELSE c \in P.set

good_for_label == Is({".", "$", "_"} \cup Letters \cup Digits)

IsOpChar == Is(Letters \cup Digits \cup {".", "_"})

IsSpace == Is({" ", "\t"})

NotNewline == IsNot({"\n"})

NotQuote == IsNot({"\""})

IsHexDigit == Is(Digits \cup HexLetters)

IsDigit == Is(Digits)

IsSharp == Is({"#"})

----------------------------------------------------------------------------
(* Text helpers                                                             *)

Drop(s, n) == SubSeq(s, n + 1, Len(s))

Take(s, n) == SubSeq(s, 1, n)

StartsWith(s, p) == Len(p) <= Len(s) /\ Take(s, Len(p)) = p

MaxOf(S) == CHOOSE n \in S : \A m \in S : m <= n

\* length of the longest prefix of s whose characters all satisfy P
RECURSIVE PrefixFrom(_, _, _)
PrefixFrom(P, s, n) ==
  IF n < Len(s) /\ Sat(P, s[n + 1]) THEN PrefixFrom(P, s, n + 1) ELSE n

PrefixLen(P, s) == PrefixFrom(P, s, 0)

Reverse(s) == [i \in 1..Len(s) |-> s[Len(s) + 1 - i]]

Contains(s, c) == \E i \in 1..Len(s) : s[i] = c

\* index of the first occurrence of a character of C in s, 0 when there is none
FirstIn(s, C) ==
  IF \E i \in 1..Len(s) : s[i] \in C
  THEN CHOOSE i \in 1..Len(s) : s[i] \in C /\ \A j \in 1..(i - 1) : s[j] \notin C
  ELSE 0

None == [some |-> FALSE]

Some(v) == [some |-> TRUE, v |-> v]


----------------------------------------------------------------------------
(* nom primitives on a text                                                 *)

Fail == [ok |-> FALSE]

Ok(rest, val) == [ok |-> TRUE, rest |-> rest, val |-> val]

RunTag(lit, s) ==
  IF StartsWith(s, lit) THEN Ok(Drop(s, Len(lit)), lit) ELSE Fail

TakeN(n, s) == IF n = 0 THEN Fail ELSE Ok(Drop(s, n), Take(s, n))

RunTakeWhile1(P, s) == TakeN(PrefixLen(P, s), s)

\* take_while_m_n(m, n, P): between m and n leading characters satisfying P
ClampN(k, m, n, s) ==
  IF k < m THEN Fail
  ELSE IF k > n THEN Ok(Drop(s, n), Take(s, n))
  ELSE Ok(Drop(s, k), Take(s, k))

RunTakeWhileMN(m, n, P, s) == ClampN(PrefixLen(P, s), m, n, s)

RunNewline(s) ==
  IF Len(s) > 0 /\ s[1] = "\n" THEN Ok(Drop(s, 1), "\n") ELSE Fail

\* not_line_ending: up to the first "\n" or "\r\n"; a "\r" not followed by
\* "\n" is an error
CutAtLineEnding(i, s) ==
  IF i = 0 THEN Ok(<<>>, s)
  ELSE IF s[i] = "\r" /\ ~(i < Len(s) /\ s[i + 1] = "\n") THEN Fail
  ELSE Ok(Drop(s, i - 1), Take(s, i - 1))

RunNotLineEnding(s) == CutAtLineEnding(FirstIn(s, {"\r", "\n"}), s)

DigitVal(c) ==
  CASE c = "0" -> 0 [] c = "1" -> 1 [] c = "2" -> 2 [] c = "3" -> 3
    [] c = "4" -> 4 [] c = "5" -> 5 [] c = "6" -> 6 [] c = "7" -> 7
    [] c = "8" -> 8 [] c = "9" -> 9

\* u64::MAX = 18446744073709551615
U64MaxDigits ==
  <<"1", "8", "4", "4", "6", "7", "4", "4", "0", "7",
    "3", "7", "0", "9", "5", "5", "1", "6", "1", "5">>

\* a and b are digit strings of the same length: a <= b as numbers
DigitsLeq(a, b) ==
  \/ a = b
  \/ \E i \in 1..Len(a) :
       /\ DigitVal(a[i]) < DigitVal(b[i])
       /\ \A j \in 1..(i - 1) : a[j] = b[j]

\* digits without their first z characters ("0" when nothing is left)
DropZeros(d, z) == IF z = Len(d) THEN <<"0">> ELSE Drop(d, z)

\* the digits without their leading zeros
Canonical(d) == DropZeros(d, PrefixLen(Is({"0"}), d))

FitsU64(d) ==
  \/ Len(d) < Len(U64MaxDigits)
  \/ Len(d) = Len(U64MaxDigits) /\ DigitsLeq(d, U64MaxDigits)

\* nom::character::complete::u64: all leading decimal digits; an error when
\* there is none or when the value overflows 64 bits (checked_mul/checked_add)
U64Of(n, s) ==
  IF n = 0 \/ ~FitsU64(Canonical(Take(s, n))) THEN Fail
  ELSE Ok(Drop(s, n), Canonical(Take(s, n)))

RunU64(s) == U64Of(PrefixLen(IsDigit, s), s)

\* str::trim
TrimEnd(t) == Take(t, Len(t) - PrefixLen(Is(WhiteSpace), Reverse(t)))

Trim(s) == TrimEnd(Drop(s, PrefixLen(Is(WhiteSpace), s)))

----------------------------------------------------------------------------
(* nom parsers as values: a parser is a record naming its combinator        *)

tag(lit) == [op |-> "tag", lit |-> lit]

take_while1(P) == [op |-> "take_while1", pred |-> P]

take_while_m_n(m, n, P) == [op |-> "take_while_m_n", m |-> m, n |-> n, pred |-> P]

space1 == take_while1(IsSpace)

hex_digit1 == take_while1(IsHexDigit)

newline == [op |-> "newline"]

not_line_ending == [op |-> "not_line_ending"]

u64 == [op |-> "u64"]

tuple(ps) == [op |-> "tuple", ps |-> ps]

alt(ps) == [op |-> "alt", ps |-> ps]

opt(q) == [op |-> "opt", p |-> q]

map(q, f) == [op |-> "map", p |-> q, f |-> f]

recognize(q) == [op |-> "recognize", p |-> q]

verify(q, f) == [op |-> "verify", p |-> q, f |-> f]

pair(a, b) == tuple(<<a, b>>)

terminated(a, b) == map(tuple(<<a, b>>), "first")

preceded(a, b) == map(tuple(<<a, b>>), "second")

delimited(a, b, c) == map(tuple(<<a, b, c>>), "second")

----------------------------------------------------------------------------
(* Statement values                                                         *)

Label(id) == [kind |-> "Label", id |-> id]

Instruction(op, args) == [kind |-> "Instruction", op |-> op, args |-> args]

FullPath(p) == [tag |-> "FullPath", path |-> p]

PathAndFileName(p, n) == [tag |-> "PathAndFileName", path |-> p, name |-> n]

File(index, path, md5) ==
  [kind |-> "File", index |-> index, path |-> path, md5 |-> md5]

Loc(f, l, c, x) ==
  [kind |-> "Loc", file |-> f, line |-> l, column |-> c, extra |-> x]

Generic(t) == [kind |-> "Generic", text |-> t]

SetDir(t) == [kind |-> "Set", text |-> t]

SubsectionsViaSym == [kind |-> "SubsectionsViaSym"]

SectionStart(t) == [kind |-> "SectionStart", text |-> t]

Nothing == [kind |-> "Nothing"]

Dunno(t) == [kind |-> "Dunno", text |-> t]

DirectiveKinds ==
  {"File", "Loc", "Generic", "Set", "SubsectionsViaSym", "SectionStart"}

----------------------------------------------------------------------------
(* Literals                                                                 *)

TagFile == <<"\t", ".", "f", "i", "l", "e", "\t">>

TagLoc == <<"\t", ".", "l", "o", "c", "\t">>

TagSet == <<".", "s", "e", "t">>

TagSection == <<"\t", ".", "s", "e", "c", "t", "i", "o", "n">>

TagGeneric == <<"\t", ".">>

TagSsvs ==
  <<".", "s", "u", "b", "s", "e", "c", "t", "i", "o", "n", "s", "_",
    "v", "i", "a", "_", "s", "y", "m", "b", "o", "l", "s">>

TagFuncEnd == <<"L", "f", "u", "n", "c", "_", "e", "n", "d">>


----------------------------------------------------------------------------
(* The closures given to map and verify                                     *)

\* File::parse: |(_, fileno, _, filepath, filename, md5)| File { .. }
FileOf(v) ==
  File(v[2],
       IF v[5].some THEN PathAndFileName(v[4], v[5].v[2]) ELSE FullPath(v[4]),
       IF v[6].some THEN Some(v[6].v[2]) ELSE None)

\* Loc::parse: |(_, file, _, line, _, column, extra)| Loc { .. }
LocOf(v) == Loc(v[2], v[4], v[6], v[7])

Apply(f, v) ==
  CASE f = "first" -> v[1]
    [] f = "second" -> v[2]
    [] f = "Label" -> Label(v)
    [] f = "regular" -> Instruction(v[1], v[2])
    [] f = "sharp" -> Instruction(v, None)
    [] f = "File" -> FileOf(v)
    [] f = "Loc" -> LocOf(v)
    [] f = "SectionStart" -> SectionStart(Trim(v))
    [] f = "Generic" -> Generic(v)
    [] f = "Set" -> SetDir(v)
    [] f = "SubsectionsViaSym" -> SubsectionsViaSym
    [] f = "Dunno" -> Dunno(v)
    [] f = "Nothing" -> Nothing
    [] f = "Statement" -> v

Holds(f, v) ==
  CASE f = "is_empty" -> v = <<>>
    [] f = "non_empty" -> v # <<>>

----------------------------------------------------------------------------
(* Running a parser on a text                                               *)

Push(acc, r) == IF r.ok THEN Ok(r.rest, Append(acc.val, r.val)) ELSE Fail

OptOf(r, s) == IF r.ok THEN Ok(r.rest, Some(r.val)) ELSE Ok(s, None)

MapOf(f, r) == IF r.ok THEN Ok(r.rest, Apply(f, r.val)) ELSE Fail

RecognizeOf(r, s) ==
  IF r.ok THEN Ok(r.rest, Take(s, Len(s) - Len(r.rest))) ELSE Fail

VerifyOf(f, r) == IF r.ok /\ Holds(f, r.val) THEN r ELSE Fail

RECURSIVE Run(_, _), TupleFrom(_, _), AltFrom(_, _), OrElse(_, _, _)

\* tuple: the parsers one after the other, each on what the last one left
TupleFrom(ps, acc) ==
  IF ps = <<>> \/ ~acc.ok THEN acc
  ELSE TupleFrom(Tail(ps), Push(acc, Run(Head(ps), acc.rest)))

\* alt: the first parser that succeeds on the same text
OrElse(r, ps, s) == IF r.ok THEN r ELSE AltFrom(ps, s)

AltFrom(ps, s) ==
  IF ps = <<>> THEN Fail ELSE OrElse(Run(Head(ps), s), Tail(ps), s)

Run(p, s) ==
  CASE p.op = "tag" -> RunTag(p.lit, s)
    [] p.op = "take_while1" -> RunTakeWhile1(p.pred, s)
    [] p.op = "take_while_m_n" -> RunTakeWhileMN(p.m, p.n, p.pred, s)
    [] p.op = "newline" -> RunNewline(s)
    [] p.op = "not_line_ending" -> RunNotLineEnding(s)
    [] p.op = "u64" -> RunU64(s)
    [] p.op = "tuple" -> TupleFrom(p.ps, Ok(s, <<>>))
    [] p.op = "alt" -> AltFrom(p.ps, s)
    [] p.op = "opt" -> OptOf(Run(p.p, s), s)
    [] p.op = "map" -> MapOf(p.f, Run(p.p, s))
    [] p.op = "recognize" -> RecognizeOf(Run(p.p, s), s)
    [] p.op = "verify" -> VerifyOf(p.f, Run(p.p, s))

----------------------------------------------------------------------------
(* Label                                                                    *)

LabelRegular == map(terminated(take_while1(good_for_label), tag(<<":">>)), "Label")

LabelQuoted ==
  map(delimited(tag(<<"\"">>), take_while1(NotQuote), tag(<<"\"", ":">>)), "Label")

LabelParser == alt(<<LabelRegular, LabelQuoted>>)

----------------------------------------------------------------------------
(* Instruction                                                              *)

parse_sharp ==
  map(recognize(pair(take_while_m_n(1, 2, IsSharp), not_line_ending)), "sharp")

parse_regular ==
  map(pair(take_while1(IsOpChar), opt(preceded(space1, not_line_ending))),
      "regular")

InstructionParser == preceded(tag(<<"\t">>), alt(<<parse_regular, parse_sharp>>))

----------------------------------------------------------------------------
(* File and Loc                                                             *)

filename == delimited(tag(<<"\"">>), take_while1(NotQuote), tag(<<"\"">>))

\* variant of FileMd5: the digest read with digit1 instead of hex_digit1
FileMd5_DecimalOnly == opt(tuple(<<space1, take_while1(IsDigit)>>))

FileMd5 == opt(tuple(<<space1, hex_digit1>>))

FileParser ==
  map(tuple(<<tag(TagFile), u64, space1, filename,
              opt(tuple(<<space1, filename>>)), FileMd5>>),
      "File")

LocParser ==
  map(tuple(<<tag(TagLoc), u64, space1, u64, space1, u64,
              opt(preceded(tag(<<" ">>), take_while1(NotNewline)))>>),
      "Loc")

----------------------------------------------------------------------------
(* parse_statement                                                          *)

label == map(LabelParser, "Statement")

file == map(FileParser, "Statement")

loc == map(LocParser, "Statement")

section == map(preceded(tag(TagSection), take_while1(NotNewline)), "SectionStart")

generic == map(preceded(tag(TagGeneric), take_while1(NotNewline)), "Generic")

set == map(preceded(tag(TagSet), take_while1(NotNewline)), "Set")

ssvs == map(tag(TagSsvs), "SubsectionsViaSym")

\* variant of dunno: the catch-all built on not_line_ending
dunno_NotLineEnding == map(verify(not_line_ending, "non_empty"), "Dunno")

dunno == map(take_while1(NotNewline), "Dunno")

instr == map(InstructionParser, "Statement")

nothing == map(verify(not_line_ending, "is_empty"), "Nothing")

dir == map(alt(<<file, loc, set, ssvs, section, generic>>), "Statement")

\* variant of line: the rest of the line is skipped before the newline
line_SkipRest(q) ==
  map(tuple(<<q, opt(take_while1(NotNewline)), newline>>), "first")

\* variant of line: the newline is optional
line_OrEnd(q) == terminated(q, opt(newline))

\* terminated(.., newline) around each alternative
line(q) == terminated(q, newline)

statement ==
  alt(<<line(label), line(dir), line(instr), line(nothing), line(dunno)>>)

parse_statement(s) == Run(statement, s)

\* the sub-parsers applied to a text
LabelParse(s) == Run(LabelParser, s)

FileParse(s) == Run(FileParser, s)

LocParse(s) == Run(LocParser, s)

SetParse(s) == Run(set, s)

SsvsParse(s) == Run(ssvs, s)

SectionParse(s) == Run(section, s)

GenericParse(s) == Run(generic, s)

DirParse(s) == Run(dir, s)

InstructionParse(s) == Run(InstructionParser, s)

NothingParse(s) == Run(nothing, s)

DunnoParse(s) == Run(dunno, s)

----------------------------------------------------------------------------
(* Classification predicates                                                *)

\* variant of check_id: every leading "." is stripped
check_id_AllDots(id) ==
  StartsWith(Drop(id, PrefixLen(Is({"."}), id)), TagFuncEnd)

\* id.strip_prefix('.').unwrap_or(id).starts_with("Lfunc_end")
check_id(id) ==
  LET t == IF Len(id) > 0 /\ id[1] = "." THEN Drop(id, 1) ELSE id
  IN  StartsWith(t, TagFuncEnd)

is_end_of_fn(st) == st.kind = "Label" /\ check_id(st.id)

is_section_start(st) == st.kind = "SectionStart"

is_global(st) ==
  st.kind = "Generic" /\ StartsWith(st.text, <<"g", "l", "o", "b", "l", "\t">>)

----------------------------------------------------------------------------
(* Display                                                                  *)

\* demangle::contents with demangling off, under color! with colors off
demangle_contents(t) == t

\* Path::new(path).join(name): an absolute name replaces the path, otherwise
\* the name is appended after a separator (none if the path ends with one)
PathJoin(p, n) ==
  IF Len(n) > 0 /\ n[1] = "/" THEN n
  ELSE IF Len(p) = 0 \/ p[Len(p)] = "/" THEN p \o n
  ELSE p \o <<"/">> \o n

as_full_path(fp) ==
  IF fp.tag = "FullPath" THEN fp.path ELSE PathJoin(fp.path, fp.name)

DisplayFile(f) ==
  TagFile \o f.index \o <<" ">> \o as_full_path(f.path)
    \o (IF f.md5.some THEN <<" ">> \o f.md5.v ELSE <<>>)

DisplayLoc(l) ==
  TagLoc \o l.file \o <<" ">> \o l.line \o <<" ">> \o l.column
    \o (IF l.extra.some THEN <<" ">> \o l.extra.v ELSE <<>>)

DisplayLabel(l) == demangle_contents(l.id) \o <<":">>

DisplayInstruction(i) ==
  i.op \o (IF i.args.some THEN <<" ">> \o demangle_contents(i.args.v) ELSE <<>>)

DisplayStatement(st) ==
  CASE st.kind = "Label" -> DisplayLabel(st)
    [] st.kind = "File" -> DisplayFile(st)
    [] st.kind = "Loc" -> DisplayLoc(st)
    [] st.kind = "Generic" -> TagGeneric \o demangle_contents(st.text)
    [] st.kind = "Set" -> TagSet \o <<" ">> \o st.text
    [] st.kind = "SectionStart" ->
         Drop(TagSection, 1) \o <<" ">> \o demangle_contents(st.text)
    [] st.kind = "SubsectionsViaSym" -> TagSsvs
    [] st.kind = "Instruction" -> <<"\t">> \o DisplayInstruction(st)
    [] st.kind = "Nothing" -> <<>>
    [] st.kind = "Dunno" -> st.text

\* variant of LocEq: the derived, field-by-field equality
LocEq_Derived(a, b) == a = b

\* impl PartialEq for Loc
LocEq(a, b) == a.file = b.file /\ a.line = b.line

----------------------------------------------------------------------------
(* Inputs.  A free line is a line start, up to MaxBody further characters   *)
(* and an optional terminator; label, .file and .loc lines are also built   *)
(* from their parts, so that every field of their shapes is exercised.      *)

MaxBody == 2

MaxNum == 1

Heads ==
   {<<>>,
    <<"\t">>,
    <<"\t", ".">>,
    <<"x">>,
    <<"x", ":">>,
    <<"\"", "x">>,
    <<".", "s", "e", "t">>,
    <<".", "s", "u", "b", "s", "e", "c", "t", "i", "o", "n", "s", "_", "v", "i", "a", "_", "s", "y", "m", "b", "o", "l", "s">>,
    <<"\t", ".", "s", "e", "c", "t", "i", "o", "n">>,
    <<"L", "f", "u", "n", "c", "_", "e", "n", "d">>,
    <<".", "L", "f", "u", "n", "c", "_", "e", "n", "d">>,
    <<".", ".", "L", "f", "u", "n", "c", "_", "e", "n", "d">>,
    <<"\t", "m", "o", "v">>,
    <<"\t", "#">>,
    <<"\t", ".", "f", "i", "l", "e", "\t">>,
    <<"\t", ".", "l", "o", "c", "\t">>,
    <<"\t", ".", "g", "l", "o", "b", "l", "\t">>}

BodyChars == {" ", "\t", "\n", "\r", "\"", ":", ".", "1", "x", "#"}

Bodies == UNION {[1..n -> BodyChars] : n \in 0..MaxBody}

Terms == {<<>>, <<"\n">>}

FreeForms ==
  {[shape |-> "free", head |-> h, body |-> b, term |-> t] :
     h \in Heads, b \in Bodies, t \in Terms}

Quote(t) == <<"\"">> \o t \o <<"\"">>

Ids ==
   {<<"x">>,
    <<"L", "f", "u", "n", "c", "_", "e", "n", "d", "3">>,
    <<".", "L", "f", "u", "n", "c", "_", "e", "n", "d", "3">>,
    <<".", ".", "L", "f", "u", "n", "c", "_", "e", "n", "d", "3">>,
    <<"a", " ", "b">>,
    <<"a", "\n", "b">>,
    <<"$", "_", "0">>}

Tails ==
   {<<>>,
    <<" ">>,
    <<" ", "z", "z">>,
    <<"\t", "x">>,
    <<"x">>,
    <<"\r">>}

LabelForms ==
  {[shape |-> "label", quoted |-> q, id |-> i, tail |-> t] :
     q \in BOOLEAN, i \in Ids, t \in Tails}

Indexes ==
   {<<"9">>,
    <<"0", "7">>,
    <<"1", "8", "4", "4", "6", "7", "4", "4", "0", "7", "3", "7", "0", "9", "5", "5", "1", "6", "1", "5">>,
    <<"1", "8", "4", "4", "6", "7", "4", "4", "0", "7", "3", "7", "0", "9", "5", "5", "1", "6", "1", "6">>}

Blanks == {<<" ">>, <<"\t", " ">>}

Paths ==
   {<<"/", "a">>,
    <<"a", " ", "b", "/">>,
    <<"a", "\n", "b">>,
    <<>>}

Names ==
   {<<"b", ".", "r", "s">>,
    <<"/", "b">>,
    <<>>}

Digests ==
   {<<"7", "a", "F">>,
    <<"0">>}

FileForms ==
  {[shape |-> "file", index |-> i, sp |-> w, path |-> p, name |-> n,
    md5 |-> h, tail |-> t] :
     i \in Indexes, w \in Blanks, p \in Paths,
     n \in {None} \cup {Some(x) : x \in Names},
     h \in {None} \cup {Some(x) : x \in Digests}, t \in Tails}

Numbers ==
   {<<"1">>,
    <<"0", "0", "7">>,
    <<"x">>}

Extras ==
   {<<"i", "s", "_", "s", "t", "m", "t", " ", "0">>,
    <<"\t", "x">>}

LocForms ==
  {[shape |-> "loc", file |-> f, line |-> l, column |-> c, sp |-> w,
    extra |-> x, tail |-> t] :
     f \in Numbers, l \in Numbers, c \in Numbers, w \in Blanks,
     x \in {None} \cup {Some(e) : e \in Extras}, t \in Tails}

\* the text of a .file directive built from its parts
FileText(f) ==
  TagFile \o f.index \o f.sp \o Quote(f.path)
    \o (IF f.name.some THEN f.sp \o Quote(f.name.v) ELSE <<>>)
    \o (IF f.md5.some THEN f.sp \o f.md5.v ELSE <<>>)

LocText(f) ==
  TagLoc \o f.file \o f.sp \o f.line \o f.sp \o f.column
    \o (IF f.extra.some THEN <<" ">> \o f.extra.v ELSE <<>>)

LabelText(f) == (IF f.quoted THEN Quote(f.id) ELSE f.id) \o <<":">>

\* the buffer a form stands for
TextOf(f) ==
  CASE f.shape = "free" -> f.head \o f.body \o f.term
    [] f.shape = "label" -> LabelText(f) \o f.tail \o <<"\n">>
    [] f.shape = "file" -> FileText(f) \o f.tail \o <<"\n">>
    [] f.shape = "loc" -> LocText(f) \o f.tail \o <<"\n">>

LineForms == FreeForms \cup LabelForms \cup FileForms \cup LocForms

----------------------------------------------------------------------------
(* The line dispatcher applied to a buffer, followed by the predicates and  *)
(* the rendering its collaborators call on the statement.                   *)

NoFlags == [end_of_fn |-> FALSE, section_start |-> FALSE, global |-> FALSE]

Init ==
  /\ form \in LineForms
  /\ input = TextOf(form)
  /\ pc = "ready"
  /\ res = Fail
  /\ flags = NoFlags
  /\ rendered = <<>>
  /\ res2 = Fail

ParseStatement ==
  /\ pc = "ready"
  /\ res' = parse_statement(input)
  /\ pc' = "parsed"
  /\ UNCHANGED <<input, form, flags, rendered, res2>>

Classify ==
  /\ pc = "parsed"
  /\ res.ok
  /\ flags' = [end_of_fn |-> is_end_of_fn(res.val),
               section_start |-> is_section_start(res.val),
               global |-> is_global(res.val)]
  /\ pc' = "classified"
  /\ UNCHANGED <<input, form, res, rendered, res2>>

Render ==
  /\ pc = "classified"
  /\ rendered' = DisplayStatement(res.val)
  /\ pc' = "rendered"
  /\ UNCHANGED <<input, form, res, flags, res2>>

Reparse ==
  /\ pc = "rendered"
  /\ res2' = parse_statement(rendered \o <<"\n">>)
  /\ pc' = "reparsed"
  /\ UNCHANGED <<input, form, res, flags, rendered>>

Next == ParseStatement \/ Classify \/ Render \/ Reparse

Spec == Init /\ [][Next]_vars

----------------------------------------------------------------------------
(* File::parse applied to a .file directive built from its parts, and       *)
(* as_full_path applied to the path it returns.                             *)

InitFile ==
  /\ form \in {f \in FileForms : f.tail = <<>>}
  /\ input = FileText(form)
  /\ pc = "file"
  /\ res = Fail
  /\ flags = NoFlags
  /\ rendered = <<>>
  /\ res2 = Fail

ApplyFileParse ==
  /\ pc = "file"
  /\ res' = FileParse(input)
  /\ pc' = "file_parsed"
  /\ UNCHANGED <<input, form, flags, rendered, res2>>

ApplyFullPath ==
  /\ pc = "file_parsed"
  /\ res.ok
  /\ rendered' = as_full_path(res.val.path)
  /\ pc' = "file_path"
  /\ UNCHANGED <<input, form, res, flags, res2>>

NextFile == ApplyFileParse \/ ApplyFullPath

SpecFile == InitFile /\ [][NextFile]_vars

----------------------------------------------------------------------------
(* Loc::eq applied to pairs of Loc values.                                  *)

DigitChar(n) ==
  CASE n = 0 -> "0" [] n = 1 -> "1" [] n = 2 -> "2" [] n = 3 -> "3"
    [] n = 4 -> "4" [] n = 5 -> "5" [] n = 6 -> "6" [] n = 7 -> "7"
    [] n = 8 -> "8" [] n = 9 -> "9"

RECURSIVE ToDigits(_)
ToDigits(n) ==
  IF n < 10 THEN <<DigitChar(n)>>
  ELSE ToDigits(n \div 10) \o <<DigitChar(n % 10)>>

U64Values == {ToDigits(n) : n \in 0..MaxNum}

LocValues ==
  {Loc(f, l, c, x) :
     f \in U64Values, l \in U64Values, c \in U64Values,
     x \in {None, Some(<<"x">>)}}

InitLoc ==
  /\ form \in [a : LocValues, b : LocValues]
  /\ input = <<>>
  /\ pc = "loc"
  /\ res = Fail
  /\ flags = NoFlags
  /\ rendered = <<>>
  /\ res2 = Fail

CompareLoc ==
  /\ pc = "loc"
  /\ flags' = [eq |-> LocEq(form.a, form.b), eq_rev |-> LocEq(form.b, form.a)]
  /\ pc' = "compared"
  /\ UNCHANGED <<input, form, res, rendered, res2>>

NextLoc == CompareLoc

SpecLoc == InitLoc /\ [][NextLoc]_vars

----------------------------------------------------------------------------
(* Properties                                                               *)

HasNewline(s) == Contains(s, "\n")

\* the text before the first "\n" of s, and the text after it
FirstLine(s) == Take(s, FirstIn(s, {"\n"}) - 1)

AfterFirstLine(s) == Drop(s, FirstIn(s, {"\n"}))

Parsed == pc \in {"parsed", "classified", "rendered", "reparsed"}

\* parser result r is a match of the line: it is followed by the terminator
InFull(r) == r.ok /\ Len(r.rest) > 0 /\ r.rest[1] = "\n"

\* some sub-grammar other than the catch-all recognizes the line in full
SomeGrammarInFull(s) ==
  \/ InFull(LabelParse(s))
  \/ InFull(FileParse(s)) \/ InFull(LocParse(s))
  \/ InFull(SetParse(s)) \/ InFull(SsvsParse(s))
  \/ InFull(SectionParse(s)) \/ InFull(GenericParse(s))
  \/ InFull(InstructionParse(s))

\* C1: on a buffer whose first line is terminated by "\n", parse_statement
\* never fails; an empty line gives Nothing, and a non-empty line that no
\* other sub-grammar recognizes in full gives Dunno with the whole line.
C1_Totality ==
  (Parsed /\ HasNewline(input)) =>
    /\ res.ok
    /\ FirstLine(input) = <<>> =>
         res.val = Nothing /\ res.rest = AfterFirstLine(input)
    /\ (FirstLine(input) # <<>> /\ ~SomeGrammarInFull(input)) =>
         /\ res.val = Dunno(FirstLine(input))
         /\ res.rest = AfterFirstLine(input)
    /\ res.val.kind = "Nothing" => FirstLine(input) = <<>>

\* a line on which Label recognizes only a prefix ends as Dunno
C1_Witness ==
  /\ pc = "parsed"
  /\ HasNewline(input)
  /\ LabelParse(input).ok
  /\ res.ok
  /\ res.val = Dunno(FirstLine(input))
  /\ Contains(FirstLine(input), "\r")

\* the result of the earliest sub-grammar, in the fixed order, that
\* recognizes the first line in full
EarliestInFull(s) ==
  IF InFull(LabelParse(s)) THEN LabelParse(s).val
  ELSE IF InFull(FileParse(s)) THEN FileParse(s).val
  ELSE IF InFull(LocParse(s)) THEN LocParse(s).val
  ELSE IF InFull(SetParse(s)) THEN SetParse(s).val
  ELSE IF InFull(SsvsParse(s)) THEN SsvsParse(s).val
  ELSE IF InFull(SectionParse(s)) THEN SectionParse(s).val
  ELSE IF InFull(GenericParse(s)) THEN GenericParse(s).val
  ELSE IF InFull(InstructionParse(s)) THEN InstructionParse(s).val
  ELSE IF FirstLine(s) = <<>> THEN Nothing
  ELSE Dunno(FirstLine(s))

\* C2: a line recognized by more than one sub-grammar is returned as the
\* earliest of them in the order Label, File, Loc, Set, SubsectionsViaSym,
\* SectionStart, Generic, Instruction, Nothing, Dunno.
C2_Priority ==
  (Parsed /\ HasNewline(input)) =>
    res.ok /\ res.val = EarliestInFull(input)

\* the first of Label, Directive, Instruction that recognizes a prefix
FirstPrefixMatch(s) ==
  IF LabelParse(s).ok THEN LabelParse(s)
  ELSE IF DirParse(s).ok THEN DirParse(s)
  ELSE InstructionParse(s)

\* C3 as claimed: the first sub-grammar that recognizes a prefix of the line
\* gives the statement, the rest of the line is dropped and no later
\* alternative is tried.
C3_TrailingDiscarded ==
  (Parsed /\ HasNewline(input) /\ FirstPrefixMatch(input).ok
     /\ ~HasNewline(Take(input, Len(input) - Len(FirstPrefixMatch(input).rest))))
  => /\ res.ok
     /\ res.val = FirstPrefixMatch(input).val
     /\ res.rest = AfterFirstLine(input)

\* the sub-parser that produces statements of the kind of st
ParserOf(st, s) ==
  CASE st.kind = "Label" -> LabelParse(s)
    [] st.kind \in DirectiveKinds -> DirParse(s)
    [] st.kind = "Instruction" -> InstructionParse(s)
    [] st.kind = "Nothing" -> NothingParse(s)
    [] st.kind = "Dunno" -> DunnoParse(s)

\* r recognizes a prefix of s that is not followed by the line terminator
OnlyPrefix(r) == r.ok /\ ~RunNewline(r.rest).ok

\* C3 as amended: a sub-grammar that recognizes only a prefix of the line is
\* given up and the later alternatives are tried; nothing is dropped: the
\* text the returned statement was recognized from, plus the terminator, is
\* all that is consumed.
C3_PrefixFallsThrough ==
  (Parsed /\ res.ok) =>
    /\ OnlyPrefix(LabelParse(input)) => res.val.kind # "Label"
    /\ (~InFull(LabelParse(input)) /\ OnlyPrefix(DirParse(input))) =>
         res.val.kind \notin DirectiveKinds
    /\ OnlyPrefix(InstructionParse(input)) => res.val.kind # "Instruction"
    /\ LET r == ParserOf(res.val, input)
       IN  r.ok /\ r.val = res.val /\ r.rest = <<"\n">> \o res.rest

\* a label followed by more text on its line is returned as Dunno, whole
C3_Witness ==
  /\ pc = "parsed"
  /\ OnlyPrefix(LabelParse(input))
  /\ ~HasNewline(LabelParse(input).val.id)
  /\ res.ok
  /\ res.val = Dunno(FirstLine(input))
  /\ Len(LabelParse(input).rest) > Len(res.rest) + 1

\* the text spans a statement stores
Spans(st) ==
  CASE st.kind = "Label" -> {st.id}
    [] st.kind = "Instruction" ->
         {st.op} \cup (IF st.args.some THEN {st.args.v} ELSE {})
    [] st.kind = "File" ->
         {st.path.path}
           \cup (IF st.path.tag = "PathAndFileName" THEN {st.path.name} ELSE {})
           \cup (IF st.md5.some THEN {st.md5.v} ELSE {})
    [] st.kind = "Loc" -> IF st.extra.some THEN {st.extra.v} ELSE {}
    [] st.kind \in {"Generic", "Set", "SectionStart", "Dunno"} -> {st.text}
    [] OTHER -> {}

\* C4: a successful parse consumes exactly the first physical line, and no
\* span of the statement holds a "\n".
C4_OneLine ==
  (Parsed /\ res.ok) =>
    /\ res.rest = AfterFirstLine(input)
    /\ \A t \in Spans(res.val) : ~HasNewline(t)

\* the line starts with "\t.file" or "\t.loc" but is no File or Loc in full
MalformedFileOrLoc(s) ==
  /\ HasNewline(s)
  /\ \/ StartsWith(FirstLine(s), Take(TagFile, Len(TagFile) - 1))
     \/ StartsWith(FirstLine(s), Take(TagLoc, Len(TagLoc) - 1))
  /\ ~InFull(FileParse(s))
  /\ ~InFull(LocParse(s))

\* C5: a terminated line that starts like .file or .loc but does not fit the
\* strict shape is returned as Generic or Dunno.
C5_MalformedFallsThrough ==
  (Parsed /\ MalformedFileOrLoc(input)) =>
    res.ok /\ res.val.kind \in {"Generic", "Dunno"}

\* C6: two Loc values are equal exactly when their file and line are, whatever
\* their column and extra; the relation is an equivalence.
C6_LocEquality ==
  pc = "compared" =>
    /\ flags.eq = (form.a.file = form.b.file /\ form.a.line = form.b.line)
    /\ LocEq(form.a, form.a)
    /\ flags.eq = flags.eq_rev
    /\ \A c \in LocValues :
         (flags.eq /\ LocEq(form.b, c)) => LocEq(form.a, c)

\* equal Loc values that differ in column and in extra
C6_Witness ==
  /\ pc = "compared"
  /\ flags.eq
  /\ form.a.column # form.b.column
  /\ form.a.extra # form.b.extra

\* equality of statements: Loc by its own eq, the rest field by field
StatementEq(a, b) ==
  IF a.kind = "Loc" /\ b.kind = "Loc" THEN LocEq(a, b) ELSE a = b

\* C7: a Label, Instruction, File or Loc that parse_statement returned,
\* rendered and parsed again, gives an equal statement.
C7_RoundTrip ==
  (pc = "reparsed" /\ res.val.kind \in {"Label", "Instruction", "File", "Loc"})
  => res2.ok /\ StatementEq(res2.val, res.val)

\* the path a .file form denotes
FormPath(f) ==
  IF f.name.some THEN PathAndFileName(f.path, f.name.v) ELSE FullPath(f.path)

\* what joining directory p and name n gives
Joined(p, n) ==
  IF StartsWith(n, <<"/">>) THEN n
  ELSE IF p # <<>> /\ p[Len(p)] = "/" THEN p \o n
  ELSE p \o <<"/">> \o n

FileFieldsAsWritten ==
  /\ res.ok
  /\ res.rest = <<>>
  /\ res.val.index = Canonical(form.index)
  /\ res.val.path = FormPath(form)
  /\ res.val.md5 = form.md5
  /\ pc = "file_path" =>
       rendered = IF form.name.some THEN Joined(form.path, form.name.v)
                                    ELSE form.path

\* C8 as claimed: every text of the .file shape is consumed whole by
\* File::parse, which returns its index, path(s) and digest as written.
C8_FileGrammar == pc \in {"file_parsed", "file_path"} => FileFieldsAsWritten

\* the index fits in 64 bits and no quoted string is empty
WellFormedFile(f) ==
  /\ FitsU64(Canonical(f.index))
  /\ f.path # <<>>
  /\ f.name.some => f.name.v # <<>>

\* C8 as amended: the same, for an index that fits in 64 bits and quoted
\* strings that are not empty.
C8_FileGrammarWellFormed ==
  (pc \in {"file_parsed", "file_path"} /\ WellFormedFile(form)) =>
    FileFieldsAsWritten

\* directory, name and digest all present, joined into one path
C8_Witness ==
  /\ pc = "file_path"
  /\ WellFormedFile(form)
  /\ form.name.some
  /\ form.md5.some
  /\ res.val.path.tag = "PathAndFileName"
  /\ Len(rendered) = Len(form.path) + Len(form.name.v) + 1

\* C9: is_end_of_fn holds exactly of a Label whose id starts with Lfunc_end
\* or with .Lfunc_end.
C9_EndOfFn ==
  pc \in {"classified", "rendered", "reparsed"} =>
    flags.end_of_fn =
      (/\ res.val.kind = "Label"
       /\ \/ StartsWith(res.val.id, TagFuncEnd)
          \/ StartsWith(res.val.id, <<".">> \o TagFuncEnd))

\* a label .Lfunc_end.. is an end of function
C9_Witness ==
  /\ pc = "classified"
  /\ flags.end_of_fn
  /\ res.val.kind = "Label"
  /\ res.val.id[1] = "."

\* C10 as claimed: a buffer without "\n" is parsed as Dunno, or as Nothing
\* when it is empty.
C10_UnterminatedIsStatement ==
  (pc = "parsed" /\ ~HasNewline(input)) =>
    /\ res.ok
    /\ res.val = IF input = <<>> THEN Nothing ELSE Dunno(input)

\* C10 as amended: on a buffer without "\n" parse_statement returns an error,
\* whether the buffer is empty or not.
C10_UnterminatedIsError ==
  (pc = "parsed" /\ ~HasNewline(input)) => ~res.ok

\* a non-empty unterminated buffer has been parsed
C10_Witness ==
  /\ pc = "parsed"
  /\ ~HasNewline(input)
  /\ input # <<>>
  /\ ~res.ok

====
